---- MODULE Spec2Model ----
(***************************************************************************)
(* Model of link-lib, the "smart npm link" helper.                         *)
(*                                                                         *)
(* The repository holds two variants of the same script:                   *)
(*   src/index.js          one positional argument (library path), checks  *)
(*                         the global link before running `npm link`       *)
(*   src/unnamed/part_000  two positional arguments (app, library), runs   *)
(*                         `npm link` in the library unconditionally       *)
(* Both are modelled; the variable `variant` says which one is running.    *)
(*                                                                         *)
(* Strings that the script inspects character by character (dependency     *)
(* specs, the library name) are sequences of one-character strings.        *)
(***************************************************************************)
EXTENDS Integers, Sequences, FiniteSets, TLC

(***************************************************************************)
(* Characters and string helpers (JavaScript String / RegExp primitives).  *)
(***************************************************************************)
Digit == {"0", "1", "2", "3", "4", "5", "6", "7", "8", "9"}

Lower == {"a", "b", "c", "d", "e", "f", "g", "h", "i", "j", "k", "l", "m",
          "n", "o", "p", "q", "r", "s", "t", "u", "v", "w", "x", "y", "z"}

\* \w of a JavaScript regular expression, over the alphabet in use
\* (no upper-case letter occurs in any string of the model).
WordChar == Digit \cup Lower \cup {"_"}

\* [0-9A-Za-z-], the characters of a semver identifier.
IdChar == Digit \cup Lower \cup {"-"}

\* The characters in code-unit (ASCII) order, for String comparison.
CharOrder == <<"-", "0", "1", "2", "3", "4", "5", "6", "7", "8", "9",
               "a", "b", "c", "d", "e", "f", "g", "h", "i", "j", "k", "l", "m",
               "n", "o", "p", "q", "r", "s", "t", "u", "v", "w", "x", "y", "z">>

CharCode(c) == CHOOSE i \in 1..Len(CharOrder) : CharOrder[i] = c

Range(s) == {s[i] : i \in 1..Len(s)}

\* String.prototype.startsWith
StartsWith(s, p) == Len(s) >= Len(p) /\ SubSeq(s, 1, Len(p)) = p

\* String.prototype.indexOf, 1-based; 0 when c does not occur.
IndexOf(s, c) ==
  IF \E i \in 1..Len(s) : s[i] = c
  THEN CHOOSE i \in 1..Len(s) : s[i] = c /\ \A j \in 1..(i - 1) : s[j] # c
  ELSE 0

\* String.prototype.split on a single character.
RECURSIVE Split(_, _)
Split(s, c) ==
  LET i == IndexOf(s, c)
  IN IF i = 0 THEN <<s>>
     ELSE <<SubSeq(s, 1, i - 1)>> \o Split(SubSeq(s, i + 1, Len(s)), c)

\* String.prototype.trim (blanks only).
RECURSIVE Trim(_)
Trim(s) ==
  IF s = <<>> THEN s
  ELSE IF s[1] = " " THEN Trim(Tail(s))
  ELSE IF s[Len(s)] = " " THEN Trim(SubSeq(s, 1, Len(s) - 1))
  ELSE s

DigitValue(c) == CharCode(c) - 2

\* Number(t) for a string of digits.
RECURSIVE ToNum(_)
ToNum(t) ==
  IF t = <<>> THEN 0
  ELSE 10 * ToNum(SubSeq(t, 1, Len(t) - 1)) + DigitValue(t[Len(t)])

\* String comparison a < b by code units: -1, 0 or 1.
RECURSIVE StrCmp(_, _)
StrCmp(a, b) ==
  IF a = <<>> /\ b = <<>> THEN 0
  ELSE IF a = <<>> THEN -1
  ELSE IF b = <<>> THEN 1
  ELSE IF CharCode(a[1]) < CharCode(b[1]) THEN -1
  ELSE IF CharCode(a[1]) > CharCode(b[1]) THEN 1
  ELSE StrCmp(Tail(a), Tail(b))

(***************************************************************************)
(* The version-range library (semver 7), as far as the script calls it:    *)
(* valid, validRange, intersects.  Grammar covered: a range is a list of   *)
(* comparators separated by one blank; a comparator is "*", or an optional *)
(* operator (^ ~ >= <= > < =) followed by a full version                   *)
(* MAJOR.MINOR.PATCH[-prerelease][+build].  Partial versions and x-ranges  *)
(* ("1.x", "1.2"), hyphen ranges and "||" are outside this grammar and are *)
(* never drawn as inputs.                                                  *)
(***************************************************************************)

\* 0|[1-9]\d*
IsNumericId(t) ==
  /\ t # <<>>
  /\ Range(t) \subseteq Digit
  /\ (Len(t) = 1 \/ t[1] # "0")

\* 0|[1-9]\d*|\d*[a-zA-Z-][a-zA-Z0-9-]*
IsPreId(t) ==
  \/ IsNumericId(t)
  \/ /\ t # <<>>
     /\ Range(t) \subseteq IdChar
     /\ ~(Range(t) \subseteq Digit)

\* [0-9A-Za-z-]+
IsBuildId(t) == t # <<>> /\ Range(t) \subseteq IdChar

NoVersion == [ok |-> FALSE, major |-> 0, minor |-> 0, patch |-> 0, pre |-> <<>>]

Ver(ma, mi, pa, pre) == [ok |-> TRUE, major |-> ma, minor |-> mi, patch |-> pa, pre |-> pre]

\* The part of s before position i (all of s when i = 0).
Before(s, i) == IF i = 0 THEN s ELSE SubSeq(s, 1, i - 1)

\* The dot-separated identifiers of s after position i (none when i = 0).
IdsAfter(s, i) == IF i = 0 THEN <<>> ELSE Split(SubSeq(s, i + 1, Len(s)), ".")

\* The match of MAIN, PRERELEASE and BUILD, given their identifiers.
MakeVersion(nums, pres, blds) ==
  IF /\ Len(nums) = 3
     /\ \A i \in 1..Len(nums) : IsNumericId(nums[i])
     /\ \A i \in 1..Len(pres) : IsPreId(pres[i])
     /\ \A i \in 1..Len(blds) : IsBuildId(blds[i])
  THEN Ver(ToNum(nums[1]), ToNum(nums[2]), ToNum(nums[3]), pres)
  ELSE NoVersion

\* MAIN(-PRE)?, the prerelease starting at the first "-" (position da)
ParseCoreAt(core, da, blds) ==
  MakeVersion(Split(Before(core, da), "."), IdsAfter(core, da), blds)

\* MAIN(-PRE)?(\+BUILD)?, the build starting at the first "+" (position pl)
ParsePlainAt(s, pl) ==
  ParseCoreAt(Before(s, pl), IndexOf(Before(s, pl), "-"), IdsAfter(s, pl))

\* new SemVer(s): the FULL regular expression ^v?MAIN(-PRE)?(\+BUILD)?$
ParseVersion(s) ==
  IF s # <<>> /\ s[1] = "v"
  THEN ParsePlainAt(Tail(s), IndexOf(Tail(s), "+"))
  ELSE ParsePlainAt(s, IndexOf(s, "+"))

\* semver.valid(s) is non-null
SemverValid(s) == ParseVersion(Trim(s)).ok

Sign(x, y) == IF x < y THEN -1 ELSE IF x > y THEN 1 ELSE 0

\* compareIdentifiers of semver: numeric identifiers compare as numbers and
\* sort before alphanumeric ones, which compare as strings.
CompareIdentifiers(a, b) ==
  IF Range(a) \subseteq Digit /\ Range(b) \subseteq Digit THEN Sign(ToNum(a), ToNum(b))
  ELSE IF Range(a) \subseteq Digit THEN -1
  ELSE IF Range(b) \subseteq Digit THEN 1
  ELSE StrCmp(a, b)

\* SemVer.comparePre, from identifier i on
RECURSIVE ComparePreFrom(_, _, _)
ComparePreFrom(p, q, i) ==
  IF i > Len(p) /\ i > Len(q) THEN 0
  ELSE IF i > Len(q) THEN 1
  ELSE IF i > Len(p) THEN -1
  ELSE IF p[i] = q[i] THEN ComparePreFrom(p, q, i + 1)
  ELSE CompareIdentifiers(p[i], q[i])

\* SemVer.compare: -1, 0 or 1
Compare(a, b) ==
  IF a.major # b.major THEN Sign(a.major, b.major)
  ELSE IF a.minor # b.minor THEN Sign(a.minor, b.minor)
  ELSE IF a.patch # b.patch THEN Sign(a.patch, b.patch)
  ELSE IF a.pre # <<>> /\ b.pre = <<>> THEN -1
  ELSE IF a.pre = <<>> /\ b.pre # <<>> THEN 1
  ELSE ComparePreFrom(a.pre, b.pre, 1)

AnyComp == [op |-> "any", ver |-> NoVersion]

Comp(op, v) == [op |-> op, ver |-> v]

\* The operator a comparator token starts with.
OperatorOf(tok) ==
  IF StartsWith(tok, <<">", "=">>) THEN ">="
  ELSE IF StartsWith(tok, <<"<", "=">>) THEN "<="
  ELSE IF StartsWith(tok, <<">">>) THEN ">"
  ELSE IF StartsWith(tok, <<"<">>) THEN "<"
  ELSE IF StartsWith(tok, <<"=">>) THEN "="
  ELSE IF StartsWith(tok, <<"^">>) THEN "^"
  ELSE IF StartsWith(tok, <<"~">>) THEN "~"
  ELSE ""

OperatorLen(op) == IF op \in {">=", "<="} THEN 2 ELSE IF op = "" THEN 0 ELSE 1

\* The prerelease "-0" that semver 7 puts on the upper bounds it computes.
Pre0 == <<<<"0">>>>

\* replaceCarets, replaceTildes and the plain comparators, for operator op and
\* version v; <<>> when the version did not parse.
Desugar(op, v) ==
  IF ~v.ok THEN <<>>
  ELSE IF op = "^"
    THEN <<Comp(">=", v),
           IF v.major > 0 THEN Comp("<", Ver(v.major + 1, 0, 0, Pre0))
           ELSE IF v.minor > 0 THEN Comp("<", Ver(0, v.minor + 1, 0, Pre0))
           ELSE Comp("<", Ver(0, 0, v.patch + 1, Pre0))>>
  ELSE IF op = "~"
    THEN <<Comp(">=", v), Comp("<", Ver(v.major, v.minor + 1, 0, Pre0))>>
  ELSE IF op \in {"", "="} THEN <<Comp("", v)>>
  ELSE <<Comp(op, v)>>

ParseComparatorWith(tok, op) ==
  Desugar(op, ParseVersion(SubSeq(tok, OperatorLen(op) + 1, Len(tok))))

\* One blank-separated token of a range to its comparators.
ParseComparator(tok) ==
  IF tok = <<"*">> THEN <<AnyComp>> ELSE ParseComparatorWith(tok, OperatorOf(tok))

RECURSIVE Flatten(_)
Flatten(ss) == IF ss = <<>> THEN <<>> ELSE Head(ss) \o Flatten(Tail(ss))

RangeOfComparators(cs) ==
  IF \E i \in 1..Len(cs) : cs[i] = <<>>
  THEN [ok |-> FALSE, set |-> <<>>]
  ELSE [ok |-> TRUE, set |-> Flatten(cs)]

RangeOfTokens(toks) ==
  RangeOfComparators([i \in 1..Len(toks) |-> ParseComparator(toks[i])])

\* new Range(r): [ok, set]; the empty string is the range "*".
ParseRange(r) ==
  IF Trim(r) = <<>> THEN [ok |-> TRUE, set |-> <<AnyComp>>]
  ELSE RangeOfTokens(Split(Trim(r), " "))

\* semver.validRange(r) is non-null
ValidRange(r) == ParseRange(r).ok

\* Comparator.test, k being the comparison of the version with c's
CompTestBy(c, k) ==
  CASE c.op = "any" -> TRUE
    [] c.op = ""    -> k = 0
    [] c.op = ">="  -> k >= 0
    [] c.op = ">"   -> k > 0
    [] c.op = "<="  -> k <= 0
    [] c.op = "<"   -> k < 0

CompTest(c, v) == CompTestBy(c, IF c.op = "any" THEN 0 ELSE Compare(v, c.ver))

\* Range.test / testSet for one comparator set, without includePrerelease: a
\* prerelease version is admitted only by a set that names a prerelease of the
\* same MAJOR.MINOR.PATCH.
RangeTest(set, v) ==
  /\ \A i \in 1..Len(set) : CompTest(set[i], v)
  /\ v.pre # <<>> =>
       \E i \in 1..Len(set) :
         /\ set[i].op # "any"
         /\ set[i].ver.pre # <<>>
         /\ set[i].ver.major = v.major
         /\ set[i].ver.minor = v.minor
         /\ set[i].ver.patch = v.patch

Up(c) == c.op \in {">", ">="}

Down(c) == c.op \in {"<", "<="}

Inclusive(c) == c.op \in {">=", "<="}

\* value.startsWith('<0.0.0')
BelowZero(c) == c.op = "<" /\ c.ver.major = 0 /\ c.ver.minor = 0 /\ c.ver.patch = 0

\* Comparator.intersects for two comparators with an operator, k being the
\* comparison of their versions
OperatorsIntersect(a, b, k) ==
  IF BelowZero(a) \/ BelowZero(b) THEN FALSE
  ELSE \/ Up(a) /\ Up(b)
       \/ Down(a) /\ Down(b)
       \/ a.ver = b.ver /\ Inclusive(a) /\ Inclusive(b)
       \/ k < 0 /\ Up(a) /\ Down(b)
       \/ k > 0 /\ Down(a) /\ Up(b)

\* Comparator.intersects when x has no operator (a version, or ANY)
PlainIntersects(x, y) == x.op = "any" \/ RangeTest(<<y>>, x.ver)

\* Comparator.intersects
CompIntersects(a, b) ==
  IF a.op \in {"any", ""} \/ b.op \in {"any", ""}
  THEN PlainIntersects(IF a.op \in {"any", ""} THEN a ELSE b,
                       IF a.op \in {"any", ""} THEN b ELSE a)
  ELSE OperatorsIntersect(a, b, Compare(a.ver, b.ver))

\* isSatisfiable of classes/range.js
IsSatisfiable(set) ==
  \A i, j \in 1..Len(set) : i < j => CompIntersects(set[j], set[i])

\* Range.intersects for two ranges of one comparator set each
SetsIntersect(s1, s2) ==
  /\ IsSatisfiable(s1)
  /\ IsSatisfiable(s2)
  /\ \A i \in 1..Len(s1) : \A j \in 1..Len(s2) : CompIntersects(s1[i], s2[j])

\* semver.intersects(r1, r2), both valid ranges
Intersects(r1, r2) == SetsIntersect(ParseRange(r1).set, ParseRange(r2).set)

(***************************************************************************)
(* Strings and manifests.                                                  *)
(***************************************************************************)
\* The characters of a package name, for `${libName}@${originalSpec}`.
Chars(name) ==
  CASE name = "widgets"  -> <<"w", "i", "d", "g", "e", "t", "s">>
    [] name = "left-pad" -> <<"l", "e", "f", "t", "-", "p", "a", "d">>
    [] name = "vue"      -> <<"v", "u", "e">>
    [] OTHER             -> <<>>

At == <<"@">>

FilePrefix == <<"f", "i", "l", "e", ":">>

\* Dependency specs an application manifest may carry.
S_Empty    == <<>>
S_123      == <<"1", ".", "2", ".", "3">>
S_Nightly  == <<"0", ".", "5", ".", "0", "-", "n", "i", "g", "h", "t", "l", "y", ".", "5">>
S_Caret123 == <<"^", "1", ".", "2", ".", "3">>
S_CaretPre == <<"^", "1", ".", "2", ".", "3", "-", "b", "e", "t", "a", ".", "1">>
S_RcRange  == <<">", "=", "1", ".", "0", ".", "0", "-", "r", "c", " ", "<", "2", ".", "0", ".", "0">>
S_Tilde120 == <<"~", "1", ".", "2", ".", "0">>
S_File     == <<"f", "i", "l", "e", ":", ".", ".", "/", "l", "i", "b">>
S_Latest   == <<"l", "a", "t", "e", "s", "t">>
S_Caret100 == <<"^", "1", ".", "0", ".", "0">>
S_Caret120 == <<"^", "1", ".", "2", ".", "0">>
S_Caret200 == <<"^", "2", ".", "0", ".", "0">>
S_Star     == <<"*">>
S_Window   == <<">", "=", "1", ".", "0", ".", "0", " ", "<", "2", ".", "0", ".", "0">>

\* Length of the exhaustively enumerated short specs.
ShortLen == 2

ShortAlphabet == {"1", ".", "-", "^"}

ShortSpecs == UNION {[1..k -> ShortAlphabet] : k \in 0..ShortLen}

LibSpecs == {S_Empty, S_123, S_Nightly, S_Caret123, S_CaretPre, S_RcRange,
             S_Tilde120, S_File, S_Latest}

PeerRanges == {S_Empty, S_Caret100, S_Caret120, S_Caret200, S_123, S_Star,
               S_Window, S_Latest}

\* A dependency section of package.json: a function from the declared names to
\* their specs.  A section that is missing from the file behaves in every
\* expression of the script as the empty object does, and is modelled by it.
NoDeps == [n \in {} |-> <<>>]

One(name, spec) == [n \in {name} |-> spec]

Sections(names, specs) == UNION {[d -> specs] : d \in SUBSET names}

\* { ...a, ...b }
Merge(a, b) ==
  [n \in (DOMAIN a) \cup (DOMAIN b) |-> IF n \in DOMAIN b THEN b[n] ELSE a[n]]

Pkg(name, deps, dev, opt, peer) ==
  [exists |-> TRUE, name |-> name, dependencies |-> deps, devDependencies |-> dev,
   optionalDependencies |-> opt, peerDependencies |-> peer]

\* No package.json in the directory.
NoPkg ==
  [exists |-> FALSE, name |-> "", dependencies |-> NoDeps, devDependencies |-> NoDeps,
   optionalDependencies |-> NoDeps, peerDependencies |-> NoDeps]

LibName == "widgets"

\* Object.entries order of the names in use.
NameOrder == <<"left-pad", "vue", "widgets">>

(***************************************************************************)
(* Unlink flow: the arguments of the reinstall command.                    *)
(***************************************************************************)
\* (inDeps && appPkg.dependencies[libName]) || (inDevDeps && ...) || null.
\* The result is never the empty string (it is falsy and falls through to
\* null), so <<>> stands for null.
OriginalSpec(pkg, libName) ==
  LET inDeps    == libName \in DOMAIN pkg.dependencies
      inDevDeps == libName \in DOMAIN pkg.devDependencies
  IN IF inDeps /\ pkg.dependencies[libName] # <<>> THEN pkg.dependencies[libName]
     ELSE IF inDevDeps /\ pkg.devDependencies[libName] # <<>> THEN pkg.devDependencies[libName]
     ELSE <<>>

\* /-\w+/.test(s)
HasPrereleaseLook(s) ==
  \E i \in 1..(Len(s) - 1) : s[i] = "-" /\ s[i + 1] \in WordChar

\* !!semver.valid(originalSpec) || /-\w+/.test(originalSpec)
IsExact(s) == SemverValid(s) \/ HasPrereleaseLook(s)

\* if (inDevDeps) '--save-dev' else '--save-prod'
SectionFlag(pkg, libName) ==
  IF libName \in DOMAIN pkg.devDependencies THEN "--save-dev" ELSE "--save-prod"

\* A restore that forgets local-path references.
UsesOriginalSpec_IgnoringFile(spec) == spec # <<>>

\* if (originalSpec && !originalSpec.startsWith('file:'))
UsesOriginalSpec(spec) == spec # <<>> /\ ~StartsWith(spec, FilePrefix)

\* installArgs as the unlink flow builds it
InstallArgs(pkg, libName) ==
  LET originalSpec == OriginalSpec(pkg, libName)
  IN <<"install", SectionFlag(pkg, libName)>> \o
     (IF UsesOriginalSpec(originalSpec)
      THEN <<Chars(libName) \o At \o originalSpec>> \o
           (IF IsExact(originalSpec) THEN <<"--save-exact">> ELSE <<>>)
      ELSE <<Chars(libName)>>)

(***************************************************************************)
(* Peer-dependency check.                                                  *)
(***************************************************************************)
\* What the loop of warnPeerDeps decides for one entry of peerDependencies.
PeerVerdict(installed, declared, range) ==
  IF ~declared \/ installed = <<>> THEN "missing"
  ELSE IF ValidRange(range) /\ ValidRange(installed) /\ ~Intersects(range, installed)
    THEN "outOfRange"
  ELSE "ok"

\* warnPeerDeps: the two lists it prints, in Object.entries order.
WarnPeerDeps(appPkg, libPkg) ==
  LET appDeps == Merge(Merge(appPkg.dependencies, appPkg.devDependencies),
                       appPkg.optionalDependencies)
      peers   == libPkg.peerDependencies
      names   == SelectSeq(NameOrder, LAMBDA n : n \in DOMAIN peers)
      verdict == [n \in DOMAIN peers |->
                    PeerVerdict(IF n \in DOMAIN appDeps THEN appDeps[n] ELSE <<>>,
                                n \in DOMAIN appDeps, peers[n])]
  IN [missing    |-> SelectSeq(names, LAMBDA n : verdict[n] = "missing"),
      outOfRange |-> SelectSeq(names, LAMBDA n : verdict[n] = "outOfRange")]

NoReport == [missing |-> <<>>, outOfRange |-> <<>>]


(***************************************************************************)
(* The filesystem and the package manager, as the script observes them.    *)
(*                                                                         *)
(* A slot (a path that may hold the library) is "absent", a real directory *)
(* "dir", a symbolic link that resolves to the library directory           *)
(* "linkLib", or a symbolic link that resolves elsewhere "linkOther".      *)
(***************************************************************************)
Entry == {"absent", "dir", "linkLib", "linkOther"}

\* path.join
Join(a, b) == a \o b

Prefix == <<"prefix">>

\* path.join(appDir, 'node_modules', libName)
AppNodeModulesLib == Join(Join(<<"app">>, <<"node_modules">>), <<LibName>>)

\* npmRootGlobal(): path.join(prefix, 'node_modules')
NpmRootGlobal == Join(Prefix, <<"node_modules">>)

\* path.join(globalRoot, libName)
GlobalLinkPath == Join(NpmRootGlobal, <<LibName>>)

\* Where the package manager itself keeps global links: {prefix}/node_modules
\* on Windows (npm.cmd), {prefix}/lib/node_modules elsewhere (npm).
NpmGlobalSlot(win) ==
  IF win THEN Join(Join(Prefix, <<"node_modules">>), <<LibName>>)
  ELSE Join(Join(Prefix, <<"lib", "node_modules">>), <<LibName>>)

Slots(win) == {AppNodeModulesLib, GlobalLinkPath, NpmGlobalSlot(win)}

\* fs.existsSync (a link counts when its target exists)
ExistsSync(f, p) == f[p] # "absent"

\* isSymlinkTo(linkPath, libDir)
IsSymlinkTo(f, p) == f[p] = "linkLib"

\* fs.rmSync(p, { recursive: true, force: true }); it may throw
RmSync(f, p, ok) == IF ok THEN [f EXCEPT ![p] = "absent"] ELSE f

\* Effect of `npm link` run in the library directory.
NpmLinkGlobal(f, win, ok) ==
  IF ok THEN [f EXCEPT ![NpmGlobalSlot(win)] = "linkLib"] ELSE f

\* Effect of `npm link <name>` run in the application: the slot becomes a link
\* to the global alias, which is the library only if the alias points to it.
NpmLinkApp(f, win, ok) ==
  IF ok
  THEN [f EXCEPT ![AppNodeModulesLib] =
          IF f[NpmGlobalSlot(win)] = "linkLib" THEN "linkLib" ELSE "linkOther"]
  ELSE f

\* Effect of `npm unlink <name>` run in the application.
NpmUnlinkApp(f, ok) == IF ok THEN [f EXCEPT ![AppNodeModulesLib] = "absent"] ELSE f

\* Effect of `npm install ... <name>[@<spec>]` run in the application.
NpmInstallApp(f, ok) == IF ok THEN [f EXCEPT ![AppNodeModulesLib] = "dir"] ELSE f

\* Effect of `npm unlink -g <name>`.
NpmUnlinkGlobal(f, win, ok) ==
  IF ok THEN [f EXCEPT ![NpmGlobalSlot(win)] = "absent"] ELSE f

(***************************************************************************)
(* State.                                                                  *)
(***************************************************************************)
VARIABLES
  variant,      \* which script runs: "index.js" or "part_000"
  isWin,        \* process.platform === 'win32'
  fs,           \* the slots
  argv,         \* process.argv.slice(2)
  appPkg,       \* the application's package.json
  libPkg,       \* the library's package.json
  pc,           \* position of main
  exitCode,     \* "none" before a run, "running", or the exit code "0" or "1"
  log,          \* external commands, removals and spawns of this run, in order
  steps,        \* the steps of the run's state machine completed so far
  loc,          \* locals of main: the detection results
  installArgs,  \* the reinstall command of the unlink flow
  report,       \* what warnPeerDeps printed
  watcher,      \* "none", "running" or "exited"
  fsAtStart,    \* the slots when this run started
  afterLinked   \* the previous run was a successful link run that left both slots linked

vars == <<variant, isWin, fs, argv, appPkg, libPkg, pc, exitCode, log, steps, loc,
          installArgs, report, watcher, fsAtStart, afterLinked>>

Variants == {"index.js", "part_000"}

\* The positional arguments each variant expects.
Positionals(v) == IF v = "index.js" THEN <<"../library">> ELSE <<"./app", "../library">>

FlagSets == SUBSET {"--watch", "--unlink", "--unlink-global"}

FlagSeq(F) == SelectSeq(<<"--watch", "--unlink", "--unlink-global">>, LAMBDA x : x \in F)

\* Command lines: none at all, or the positionals followed by some flags.
Argvs(v) == {<<>>} \cup {Positionals(v) \o FlagSeq(F) : F \in FlagSets}

doWatch == "--watch" \in Range(argv)

doUnlink == "--unlink" \in Range(argv)

doUnlinkGlobal == "--unlink-global" \in Range(argv)

NoLoc == [globalIsLinkedToLib |-> FALSE, appIsLinkedToLib |-> FALSE,
          appHasInstalledFolder |-> FALSE, ok |-> FALSE]

\* run(npmExe, args, { cwd }) and its exit status
Run(args, cwd, ok) == [op |-> "run", args |-> args, at |-> <<cwd>>, ok |-> ok]

\* runCapture(npmExe, args)
RunCapture(args, ok) == [op |-> "runCapture", args |-> args, at |-> <<"cwd">>, ok |-> ok]

Rm(path, ok) == [op |-> "rmSync", args |-> <<>>, at |-> path, ok |-> ok]

Spawn(args, cwd) == [op |-> "spawn", args |-> args, at |-> <<cwd>>, ok |-> TRUE]

\* Application manifests of the run model: none, and one that declares the
\* library in both sections and a peer of the library out of range.
AppPkgs ==
  {NoPkg,
   Pkg("app", One(LibName, S_123), One(LibName, S_CaretPre), One("left-pad", S_Caret200), NoDeps)}

\* Library manifests of the run model: none, one without a name, the library.
LibPkgs ==
  {NoPkg,
   Pkg("", NoDeps, NoDeps, NoDeps, NoDeps),
   Pkg(LibName, NoDeps, NoDeps, NoDeps, One("left-pad", S_Caret100))}

Init ==
  /\ variant \in Variants
  /\ isWin \in BOOLEAN
  /\ fs \in [Slots(isWin) -> Entry]
  /\ argv = <<>>
  /\ appPkg = NoPkg
  /\ libPkg = NoPkg
  /\ pc = "IDLE"
  /\ exitCode = "none"
  /\ log = <<>>
  /\ steps = <<>>
  /\ loc = NoLoc
  /\ installArgs = <<>>
  /\ report = NoReport
  /\ watcher = "none"
  /\ fsAtStart = fs
  /\ afterLinked = FALSE

(***************************************************************************)
(* Actions: one per step of main between two external commands.            *)
(***************************************************************************)
\* The process has ended (or none has run yet).
Exited == pc \in {"IDLE", "DONE", "FAILED", "USAGE"} /\ exitCode # "running"

BothLinked == IsSymlinkTo(fs, NpmGlobalSlot(isWin)) /\ IsSymlinkTo(fs, AppNodeModulesLib)

\* A new invocation of the script, with the manifests as they now are on disk.
StartRun(a, ap, lp) ==
  /\ Exited
  /\ argv' = a
  /\ appPkg' = ap
  /\ libPkg' = lp
  /\ pc' = "START"
  /\ exitCode' = "running"
  /\ log' = <<>>
  /\ steps' = <<>>
  /\ loc' = NoLoc
  /\ installArgs' = <<>>
  /\ report' = NoReport
  /\ watcher' = "none"
  /\ fsAtStart' = fs
  /\ afterLinked' = (pc = "DONE" /\ exitCode = "0" /\ ~doUnlink /\ BothLinked)
  /\ UNCHANGED <<variant, isWin, fs>>

Invoke == \E a \in Argvs(variant), ap \in AppPkgs, lp \in LibPkgs : StartRun(a, ap, lp)

\* A handler that reports the error and lets the process end normally.
Fail_NoExitCode == pc' = "FAILED" /\ exitCode' = "0"

\* .catch((err) => { console.error(...); process.exit(1); })
Fail == pc' = "FAILED" /\ exitCode' = "1"

\* main returns and nothing keeps the process alive
Done == pc' = "DONE" /\ exitCode' = "0"

\* A main that falls through to the link flow whatever the flags.
Branch_IgnoringUnlink == "DETECT"

Branch == IF doUnlink THEN "UNLINK" ELSE "DETECT"

\* Argument check, manifest checks, readJson, libName.
ReadManifests ==
  /\ pc = "START"
  /\ IF Len(argv) < Len(Positionals(variant))
     THEN pc' = "USAGE" /\ exitCode' = "1"
     ELSE IF ~appPkg.exists \/ ~libPkg.exists \/ libPkg.name = ""
     THEN Fail
     ELSE /\ pc' = IF variant = "index.js" THEN "NPM-ROOT-GLOBAL" ELSE Branch
          /\ UNCHANGED exitCode
  /\ UNCHANGED <<variant, isWin, fs, argv, appPkg, libPkg, log, steps, loc,
                 installArgs, report, watcher, fsAtStart, afterLinked>>

\* index.js: npmRootGlobal() queries `npm config get prefix`.
QueryGlobalRoot ==
  /\ pc = "NPM-ROOT-GLOBAL"
  /\ \E ok \in BOOLEAN :
       /\ log' = Append(log, RunCapture(<<"config", "get", "prefix">>, ok))
       /\ IF ok THEN pc' = Branch /\ UNCHANGED exitCode ELSE Fail
  /\ UNCHANGED <<variant, isWin, fs, argv, appPkg, libPkg, steps, loc,
                 installArgs, report, watcher, fsAtStart, afterLinked>>

\* Unlink flow: `npm unlink <name>` in the application, failure tolerated.
UnlinkApp ==
  /\ pc = "UNLINK"
  /\ \E ok \in BOOLEAN :
       /\ log' = Append(log, Run(<<"unlink", libPkg.name>>, "app", ok))
       /\ fs' = NpmUnlinkApp(fs, ok)
  /\ pc' = "RESTORE"
  /\ steps' = Append(steps, "UNLINK")
  /\ UNCHANGED <<variant, isWin, argv, appPkg, libPkg, exitCode, loc,
                 installArgs, report, watcher, fsAtStart, afterLinked>>

\* Unlink flow: build installArgs and reinstall; a failure is fatal.
Restore ==
  /\ pc = "RESTORE"
  /\ installArgs' = InstallArgs(appPkg, libPkg.name)
  /\ \E ok \in BOOLEAN :
       /\ log' = Append(log, Run(installArgs', "app", ok))
       /\ fs' = NpmInstallApp(fs, ok)
       /\ IF ~ok THEN Fail /\ UNCHANGED steps
          ELSE /\ steps' = Append(steps, "RESTORE")
               /\ IF doUnlinkGlobal
                  THEN pc' = "UNLINK-GLOBAL" /\ UNCHANGED exitCode
                  ELSE Done
  /\ UNCHANGED <<variant, isWin, argv, appPkg, libPkg, loc, report, watcher,
                 fsAtStart, afterLinked>>

\* Unlink flow with --unlink-global: `npm unlink -g <name>`, failure tolerated;
\* index.js then removes globalLinkPath if it still exists.
UnlinkGlobal ==
  /\ pc = "UNLINK-GLOBAL"
  /\ \E ok \in BOOLEAN, rmOk \in BOOLEAN :
       LET cwd  == IF variant = "index.js" THEN "app" ELSE "cwd"
           log1 == Append(log, Run(<<"unlink", "-g", libPkg.name>>, cwd, ok))
           fs1  == NpmUnlinkGlobal(fs, isWin, ok)
       IN IF variant = "index.js" /\ ExistsSync(fs1, GlobalLinkPath)
          THEN /\ log' = Append(log1, Rm(GlobalLinkPath, rmOk))
               /\ fs' = RmSync(fs1, GlobalLinkPath, rmOk)
          ELSE /\ log' = log1
               /\ fs' = fs1
  /\ steps' = Append(steps, "UNLINK-GLOBAL")
  /\ Done
  /\ UNCHANGED <<variant, isWin, argv, appPkg, libPkg, loc, installArgs, report,
                 watcher, fsAtStart, afterLinked>>

\* Link flow: detection of the current link state.
Detect ==
  /\ pc = "DETECT"
  /\ loc' = [globalIsLinkedToLib   |-> variant = "index.js" /\ IsSymlinkTo(fs, GlobalLinkPath),
             appIsLinkedToLib      |-> IsSymlinkTo(fs, AppNodeModulesLib),
             appHasInstalledFolder |-> ExistsSync(fs, AppNodeModulesLib)
                                         /\ ~IsSymlinkTo(fs, AppNodeModulesLib),
             ok                    |-> FALSE]
  /\ pc' = "ENSURE-GLOBAL"
  /\ steps' = Append(steps, "DETECT")
  /\ UNCHANGED <<variant, isWin, fs, argv, appPkg, libPkg, exitCode, log,
                 installArgs, report, watcher, fsAtStart, afterLinked>>

\* Link flow: `npm link` in the library.  index.js runs it only when the global
\* link was not detected, and does not catch its failure; part_000 runs it
\* always and continues on failure.
EnsureGlobal ==
  /\ pc = "ENSURE-GLOBAL"
  /\ IF variant = "index.js" /\ loc.globalIsLinkedToLib
     THEN /\ pc' = "ENSURE-APP-LINK"
          /\ steps' = Append(steps, "ENSURE-GLOBAL")
          /\ UNCHANGED <<fs, log, exitCode>>
     ELSE \E ok \in BOOLEAN :
            /\ log' = Append(log, Run(<<"link">>, "lib", ok))
            /\ fs' = NpmLinkGlobal(fs, isWin, ok)
            /\ IF ~ok /\ variant = "index.js"
               THEN Fail /\ UNCHANGED steps
               ELSE /\ pc' = "ENSURE-APP-LINK"
                    /\ steps' = Append(steps, "ENSURE-GLOBAL")
                    /\ UNCHANGED exitCode
  /\ UNCHANGED <<variant, isWin, argv, appPkg, libPkg, loc, installArgs, report,
                 watcher, fsAtStart, afterLinked>>

\* Link flow: nothing to do when the application is already linked; otherwise
\* remove a non-symlink install and make the first `npm link <name>` attempt.
EnsureAppLink ==
  /\ pc = "ENSURE-APP-LINK"
  /\ IF loc.appIsLinkedToLib
     THEN /\ pc' = "WARN-PEERS"
          /\ steps' = Append(steps, "ENSURE-APP-LINK")
          /\ UNCHANGED <<fs, log, loc>>
     ELSE \E rmOk \in BOOLEAN, ok \in BOOLEAN :
            LET log1 == IF loc.appHasInstalledFolder
                        THEN Append(log, Rm(AppNodeModulesLib, rmOk)) ELSE log
                fs1  == IF loc.appHasInstalledFolder
                        THEN RmSync(fs, AppNodeModulesLib, rmOk) ELSE fs
            IN /\ log' = Append(log1, Run(<<"link", libPkg.name>>, "app", ok))
               /\ fs' = NpmLinkApp(fs1, isWin, ok)
               /\ IF ok
                  THEN /\ pc' = "WARN-PEERS"
                       /\ steps' = Append(steps, "ENSURE-APP-LINK")
                       /\ loc' = [loc EXCEPT !.ok = IsSymlinkTo(fs', AppNodeModulesLib)]
                  ELSE /\ pc' = "RETRY-UNLINK"
                       /\ UNCHANGED <<steps, loc>>
  /\ UNCHANGED <<variant, isWin, argv, appPkg, libPkg, exitCode, installArgs,
                 report, watcher, fsAtStart, afterLinked>>

\* A retry that relinks without unlinking first.
RetryUnlink_Skipped ==
  /\ pc = "RETRY-UNLINK"
  /\ pc' = "RELINK"
  /\ UNCHANGED <<variant, isWin, fs, argv, appPkg, libPkg, exitCode, log, steps, loc,
                 installArgs, report, watcher, fsAtStart, afterLinked>>

\* Link flow, after a failed first attempt: `npm unlink <name>`, failure tolerated.
RetryUnlink ==
  /\ pc = "RETRY-UNLINK"
  /\ \E ok \in BOOLEAN :
       /\ log' = Append(log, Run(<<"unlink", libPkg.name>>, "app", ok))
       /\ fs' = NpmUnlinkApp(fs, ok)
  /\ pc' = "RELINK"
  /\ UNCHANGED <<variant, isWin, argv, appPkg, libPkg, exitCode, steps, loc,
                 installArgs, report, watcher, fsAtStart, afterLinked>>

\* Link flow: the second and last `npm link <name>` attempt; a failure is fatal.
Relink ==
  /\ pc = "RELINK"
  /\ \E ok \in BOOLEAN :
       /\ log' = Append(log, Run(<<"link", libPkg.name>>, "app", ok))
       /\ fs' = NpmLinkApp(fs, isWin, ok)
       /\ IF ok
          THEN /\ pc' = "WARN-PEERS"
               /\ steps' = Append(steps, "ENSURE-APP-LINK")
               /\ loc' = [loc EXCEPT !.ok = IsSymlinkTo(fs', AppNodeModulesLib)]
               /\ UNCHANGED exitCode
          ELSE Fail /\ UNCHANGED <<steps, loc>>
  /\ UNCHANGED <<variant, isWin, argv, appPkg, libPkg, installArgs, report,
                 watcher, fsAtStart, afterLinked>>

\* Link flow: warnPeerDeps, then the end of main unless --watch was given.
WarnPeers ==
  /\ pc = "WARN-PEERS"
  /\ report' = WarnPeerDeps(appPkg, libPkg)
  /\ steps' = Append(steps, "WARN-PEERS")
  /\ IF doWatch
     THEN pc' = "WATCH" /\ UNCHANGED exitCode
     ELSE Done
  /\ UNCHANGED <<variant, isWin, fs, argv, appPkg, libPkg, log, loc, installArgs,
                 watcher, fsAtStart, afterLinked>>

\* Link flow with --watch: spawn `npm run build -- --watch` in the library and
\* return; the process stays alive for the child.
Watch ==
  /\ pc = "WATCH"
  /\ log' = Append(log, Spawn(<<"run", "build", "--", "--watch">>, "lib"))
  /\ watcher' = "running"
  /\ steps' = Append(steps, "WATCH")
  /\ pc' = "DONE"
  /\ UNCHANGED <<variant, isWin, fs, argv, appPkg, libPkg, exitCode, loc,
                 installArgs, report, fsAtStart, afterLinked>>

\* child.on('exit', ...): the watcher ends, and with it the process.
WatcherExit ==
  /\ watcher = "running"
  /\ watcher' = "exited"
  /\ exitCode' = "0"
  /\ UNCHANGED <<variant, isWin, fs, argv, appPkg, libPkg, pc, log, steps, loc,
                 installArgs, report, fsAtStart, afterLinked>>

Main ==
  \/ ReadManifests
  \/ QueryGlobalRoot
  \/ UnlinkApp
  \/ Restore
  \/ UnlinkGlobal
  \/ Detect
  \/ EnsureGlobal
  \/ EnsureAppLink
  \/ RetryUnlink
  \/ Relink
  \/ WarnPeers
  \/ Watch
  \/ WatcherExit

Next == Invoke \/ Main

Spec == Init /\ [][Next]_vars


(***************************************************************************)
(* The unlink flow alone, over every manifest of the application: the      *)
(* library declared in dependencies and/or devDependencies with any spec   *)
(* of the catalogue or any short spec.                                     *)
(***************************************************************************)
TheLibPkg == Pkg(LibName, NoDeps, NoDeps, NoDeps, One("left-pad", S_Caret100))

UnlinkArgvs(v) ==
  {Positionals(v) \o <<"--unlink">>, Positionals(v) \o <<"--unlink", "--unlink-global">>}

UnlinkAppPkgs ==
  {Pkg("app", d, v, NoDeps, NoDeps) :
     d \in Sections({LibName}, LibSpecs \cup ShortSpecs), v \in Sections({LibName}, LibSpecs)}

\* A run that starts with the library linked into the application.
InitRun(argvs, appPkgs, libPkgs) ==
  /\ variant \in Variants
  /\ isWin \in BOOLEAN
  /\ fs = [p \in Slots(isWin) |-> "linkLib"]
  /\ argv \in argvs
  /\ appPkg \in appPkgs
  /\ libPkg \in libPkgs
  /\ pc = "START"
  /\ exitCode = "running"
  /\ log = <<>>
  /\ steps = <<>>
  /\ loc = NoLoc
  /\ installArgs = <<>>
  /\ report = NoReport
  /\ watcher = "none"
  /\ fsAtStart = fs
  /\ afterLinked = FALSE

InitUnlink == InitRun(UnlinkArgvs(variant), UnlinkAppPkgs, {TheLibPkg})

NextUnlink == ReadManifests \/ QueryGlobalRoot \/ UnlinkApp \/ Restore \/ UnlinkGlobal

SpecUnlink == InitUnlink /\ [][NextUnlink]_vars

(***************************************************************************)
(* The link flow alone, over the peer ranges of the library and the        *)
(* declarations of the application in its three sections.                  *)
(***************************************************************************)
PeerLibPkgs ==
  {Pkg(LibName, NoDeps, NoDeps, NoDeps, One("left-pad", r)) : r \in PeerRanges}
  \cup {Pkg(LibName, NoDeps, NoDeps, NoDeps,
            [n \in {"left-pad", "vue"} |-> IF n = "vue" THEN S_Caret200 ELSE S_Caret100])}

PeerAppPkgs ==
  {Pkg("app", d, v, o, NoDeps) :
     d \in Sections({"left-pad"}, PeerRanges),
     v \in Sections({"left-pad"}, PeerRanges),
     o \in Sections({"left-pad"}, PeerRanges)}

InitPeers == InitRun({Positionals(variant)}, PeerAppPkgs, PeerLibPkgs)

NextPeers ==
  ReadManifests \/ QueryGlobalRoot \/ Detect \/ EnsureGlobal \/ EnsureAppLink \/ WarnPeers

SpecPeers == InitPeers /\ [][NextPeers]_vars

(***************************************************************************)
(* Vocabulary of the properties.                                           *)
(***************************************************************************)
LogIdx == 1..Len(log)

\* `npm link` (in the library)
LinkLibCmd(e) == e.op = "run" /\ Len(e.args) = 1 /\ e.args[1] = "link"

\* `npm link <name>` (in the application)
LinkAppCmd(e) == e.op = "run" /\ Len(e.args) = 2 /\ e.args[1] = "link"

\* `npm unlink <name>` (in the application)
UnlinkAppCmd(e) == e.op = "run" /\ Len(e.args) = 2 /\ e.args[1] = "unlink"

\* `npm unlink -g <name>`
UnlinkGlobalCmd(e) == e.op = "run" /\ e.args[1] = "unlink" /\ e.args[2] = "-g"

\* `npm install ...`
InstallCmd(e) == e.op = "run" /\ e.args[1] = "install"

ProperArgs == Len(argv) >= Len(Positionals(variant))

Started == pc \notin {"IDLE", "START"}

ValidManifests == appPkg.exists /\ libPkg.exists /\ libPkg.name # ""

\* The package argument of an install command is the bare name.
Bare(args) == args[3] = Chars(LibName)

\* The package argument is <name>@<spec>.
Qualified(args) == StartsWith(args[3], Chars(LibName) \o At)

\* The spec of a qualified package argument.
SpecOf(args) == SubSeq(args[3], Len(Chars(LibName)) + 2, Len(args[3]))

SaveExact(args) == Len(args) = 4 /\ args[4] = "--save-exact"

InDeps == LibName \in DOMAIN appPkg.dependencies

InDevDeps == LibName \in DOMAIN appPkg.devDependencies

\* A range that is not one exact version.
RangeForm(s) == ValidRange(s) /\ ~SemverValid(s)


(***************************************************************************)
(* C1.  Link flow idempotence: a link run that follows a successful link   *)
(* run which left the global slot and the application slot pointing to the *)
(* library detects both as linked, issues no `npm link` (neither in the    *)
(* library nor in the application), removes nothing, leaves the filesystem *)
(* unchanged and does not fail.                                            *)
(***************************************************************************)
SecondLinkRun == afterLinked /\ Started /\ ProperArgs /\ ~doUnlink /\ ValidManifests

C1_SecondLinkRunIsNoOp ==
  SecondLinkRun =>
    /\ \A i \in LogIdx :
         ~LinkLibCmd(log[i]) /\ ~LinkAppCmd(log[i]) /\ log[i].op # "rmSync"
    /\ fs = fsAtStart
    /\ (\A i \in LogIdx : log[i].ok) => pc # "FAILED"
    /\ "DETECT" \in Range(steps) => loc.appIsLinkedToLib

(***************************************************************************)
(* C2.  Exact-save policy on restore: the reinstall command of the unlink  *)
(* flow restores a declared spec as <name>@<spec>, with --save-exact when  *)
(* the spec is an exact version and without it when the spec is a range.   *)
(***************************************************************************)
C2_ExactSavePolicy ==
  \A i \in LogIdx :
    InstallCmd(log[i]) /\ Qualified(log[i].args) =>
      LET spec == SpecOf(log[i].args)
      IN /\ \/ InDeps /\ appPkg.dependencies[LibName] = spec
            \/ InDevDeps /\ appPkg.devDependencies[LibName] = spec
         /\ SemverValid(spec) => SaveExact(log[i].args)
         /\ RangeForm(spec) => ~SaveExact(log[i].args)

(***************************************************************************)
(* C3.  Section preservation on restore: the section flag of the reinstall *)
(* command names the section that held the library, and when a spec is     *)
(* restored, the section that spec was read from.                          *)
(***************************************************************************)
C3_SectionPreserved ==
  \A i \in LogIdx :
    InstallCmd(log[i]) =>
      LET args == log[i].args
      IN /\ args[2] \in {"--save-dev", "--save-prod"}
         /\ args[2] = "--save-dev" => InDevDeps
         /\ args[2] = "--save-prod" /\ (InDeps \/ InDevDeps) => InDeps
         /\ Qualified(args) /\ args[2] = "--save-dev" =>
              appPkg.devDependencies[LibName] = SpecOf(args)
         /\ Qualified(args) /\ args[2] = "--save-prod" =>
              appPkg.dependencies[LibName] = SpecOf(args)

(***************************************************************************)
(* C4.  Bare-name fallback on restore.  As claimed: the reinstall command  *)
(* installs the bare name (and no --save-exact) if and only if the         *)
(* application declares no spec for the library or the declared spec is a  *)
(* file: reference; otherwise it installs <name>@<spec> verbatim.          *)
(***************************************************************************)
\* The spec the application declares: that of dependencies, else that of
\* devDependencies.
DeclaredSpec ==
  IF InDeps THEN appPkg.dependencies[LibName] ELSE appPkg.devDependencies[LibName]

C4_BareNameIffUndeclaredOrFile ==
  \A i \in LogIdx :
    InstallCmd(log[i]) =>
      LET args == log[i].args
      IN IF ~(InDeps \/ InDevDeps) \/ StartsWith(DeclaredSpec, FilePrefix)
         THEN Bare(args) /\ Len(args) = 3
         ELSE args[3] = Chars(LibName) \o At \o DeclaredSpec

\* C4 as amended: an empty spec counts as no spec.  The bare name is installed
\* if and only if neither section declares a non-empty spec or the first
\* non-empty one (dependencies before devDependencies) is a file: reference;
\* otherwise that spec is installed verbatim as <name>@<spec>.
NonEmptySpecs ==
  SelectSeq((IF InDeps THEN <<appPkg.dependencies[LibName]>> ELSE <<>>) \o
            (IF InDevDeps THEN <<appPkg.devDependencies[LibName]>> ELSE <<>>),
            LAMBDA x : x # <<>>)

C4_BareNameIffNoSpecOrFile ==
  \A i \in LogIdx :
    InstallCmd(log[i]) =>
      LET args == log[i].args
      IN IF NonEmptySpecs = <<>> \/ StartsWith(Head(NonEmptySpecs), FilePrefix)
         THEN Bare(args) /\ Len(args) = 3
         ELSE args[3] = Chars(LibName) \o At \o Head(NonEmptySpecs)

\* The fallback happens: a successful restore installs the bare name because
\* dependencies holds a file: reference, although devDependencies holds a range.
C4_Witness ==
  /\ pc = "DONE"
  /\ \E i \in LogIdx : InstallCmd(log[i]) /\ log[i].ok /\ Bare(log[i].args)
  /\ InDeps /\ appPkg.dependencies[LibName] = S_File
  /\ InDevDeps /\ appPkg.devDependencies[LibName] = S_Caret123

(***************************************************************************)
(* C5.  Peer-dependency classification: an entry of the library's          *)
(* peerDependencies is reported missing exactly when the application       *)
(* declares no entry of that name in dependencies, devDependencies or      *)
(* optionalDependencies; a version mismatch exactly when it is declared,   *)
(* both ranges parse and they have no version in common; never both; and   *)
(* the check does not fail the run.                                        *)
(***************************************************************************)
\* Largest version component of the versions searched for a common one.
MaxVer == 3

Versions == {Ver(a, b, c, <<>>) : a \in 0..MaxVer, b \in 0..MaxVer, c \in 0..MaxVer}

CommonVersion(r1, r2) ==
  \E v \in Versions : RangeTest(ParseRange(r1).set, v) /\ RangeTest(ParseRange(r2).set, v)

AppSections == <<appPkg.dependencies, appPkg.devDependencies, appPkg.optionalDependencies>>

DeclaredByApp(n) == \E k \in 1..3 : n \in DOMAIN AppSections[k]

\* The application's spec for n: the last section that declares it wins.
AppSpec(n) ==
  AppSections[CHOOSE k \in 1..3 :
                /\ n \in DOMAIN AppSections[k]
                /\ \A j \in (k + 1)..3 : n \notin DOMAIN AppSections[j]][n]

Mismatch(n) ==
  /\ DeclaredByApp(n)
  /\ ValidRange(libPkg.peerDependencies[n])
  /\ ValidRange(AppSpec(n))
  /\ ~CommonVersion(libPkg.peerDependencies[n], AppSpec(n))

C5_PeerClassification ==
  "WARN-PEERS" \in Range(steps) =>
    /\ pc # "FAILED"
    /\ \A n \in DOMAIN libPkg.peerDependencies :
         /\ n \in Range(report.missing) <=> ~DeclaredByApp(n)
         /\ n \in Range(report.outOfRange) <=> Mismatch(n)
         /\ ~(n \in Range(report.missing) /\ n \in Range(report.outOfRange))

(***************************************************************************)
(* C6.  Fatal abort: a missing manifest, a library without a name, the     *)
(* application-side link failing twice, or the reinstall failing, ends the *)
(* run in FAILED with exit code 1, and nothing is done after it: no        *)
(* further command, no removal, no peer check, no watcher.  A run that     *)
(* reaches DONE exits with code 0.                                         *)
(***************************************************************************)
InstallFailed(i) == InstallCmd(log[i]) /\ ~log[i].ok

RelinkFailed(i) ==
  /\ LinkAppCmd(log[i]) /\ ~log[i].ok
  /\ \E j \in 1..(i - 1) : LinkAppCmd(log[j]) /\ ~log[j].ok

Aborted == pc = "FAILED" /\ exitCode = "1" /\ watcher = "none" /\ report = NoReport

C6_FatalAbort ==
  /\ Started /\ ProperArgs /\ ~ValidManifests =>
       Aborted /\ log = <<>> /\ steps = <<>>
  /\ \A i \in LogIdx :
       InstallFailed(i) \/ RelinkFailed(i) =>
         /\ Aborted
         /\ i = Len(log)
         /\ "WARN-PEERS" \notin Range(steps)
         /\ "UNLINK-GLOBAL" \notin Range(steps)
  /\ pc = "FAILED" <=> (exitCode = "1" /\ ProperArgs)
  /\ pc = "DONE" => exitCode = (IF watcher = "running" THEN "running" ELSE "0")

C6_Witness ==
  /\ pc = "FAILED"
  /\ \E i \in LogIdx : RelinkFailed(i)
  /\ doWatch

(***************************************************************************)
(* C7.  Global-alias-ensure failure is advisory: a failing `npm link` in   *)
(* the library never by itself ends the run with exit code 1; the run goes *)
(* on to the application-side link.                                        *)
(***************************************************************************)
C7_GlobalLinkFailureIsAdvisory ==
  \A i \in LogIdx :
    LinkLibCmd(log[i]) /\ ~log[i].ok =>
      /\ "ENSURE-GLOBAL" \in Range(steps)
      /\ pc = "FAILED" => \E j \in (i + 1)..Len(log) : ~log[j].ok

(***************************************************************************)
(* C8.  Watcher launch ordering: the watcher is spawned at most once, only *)
(* with --watch and without --unlink, only after DETECT, ENSURE-GLOBAL,    *)
(* ENSURE-APP-LINK and WARN-PEERS completed in that order, and no command  *)
(* follows the spawn.                                                      *)
(***************************************************************************)
Spawns == {i \in LogIdx : log[i].op = "spawn"}

C8_WatcherOrdering ==
  /\ Cardinality(Spawns) <= 1
  /\ watcher # "none" <=> Spawns # {}
  /\ doUnlink => Spawns = {}
  /\ \A i \in Spawns :
       /\ doWatch /\ ~doUnlink
       /\ i = Len(log)
       /\ steps = <<"DETECT", "ENSURE-GLOBAL", "ENSURE-APP-LINK", "WARN-PEERS", "WATCH">>

C8_Witness ==
  /\ watcher = "running"
  /\ pc = "DONE"
  /\ \E i \in LogIdx : LinkAppCmd(log[i]) /\ log[i].ok

(***************************************************************************)
(* C9.  Global alias removal: only with both --unlink and --unlink-global, *)
(* only after the reinstall succeeded; a failing `npm unlink -g` is        *)
(* tolerated; and at DONE of such a run the global alias no longer exists. *)
(***************************************************************************)
GlobalRemoval(e) ==
  \/ UnlinkGlobalCmd(e)
  \/ e.op = "rmSync" /\ e.at = GlobalLinkPath

C9_GlobalAliasRemoval ==
  /\ \A i \in LogIdx :
       GlobalRemoval(log[i]) =>
         /\ doUnlink /\ doUnlinkGlobal
         /\ \E j \in 1..(i - 1) : InstallCmd(log[j]) /\ log[j].ok
  /\ \A i \in LogIdx : UnlinkGlobalCmd(log[i]) /\ ~log[i].ok => pc # "FAILED"
  /\ pc = "DONE" /\ doUnlink /\ doUnlinkGlobal =>
       exitCode = "0" /\ ~ExistsSync(fs, NpmGlobalSlot(isWin))

(***************************************************************************)
(* C10.  Single retry of the application-side link: in a link run,         *)
(* `npm link <name>` is attempted at most twice; the second attempt        *)
(* follows a failed first one with exactly one `npm unlink <name>` in      *)
(* between; after a successful first attempt nothing is unlinked; a failed *)
(* second attempt is the last command and is fatal; and an application     *)
(* that is already linked sees no attempt.                                 *)
(***************************************************************************)
LinkAttempts == {i \in LogIdx : LinkAppCmd(log[i])}

Unlinks == {i \in LogIdx : UnlinkAppCmd(log[i])}

C10_SingleRetry ==
  ~doUnlink =>
    /\ Cardinality(LinkAttempts) <= 2
    /\ Cardinality(Unlinks) <= 1
    /\ \A i \in LinkAttempts : \A k \in LinkAttempts :
         i < k => ~log[i].ok /\ k = i + 2 /\ Unlinks = {i + 1}
    /\ \A u \in Unlinks : (u - 1) \in LinkAttempts /\ ~log[u - 1].ok
    /\ \A i \in LinkAttempts :
         ~log[i].ok =>
           \/ pc = "RETRY-UNLINK" /\ i = Len(log)
           \/ pc = "RELINK" /\ i + 1 = Len(log)
           \/ \E k \in LinkAttempts : k > i
           \/ pc = "FAILED" /\ i = Len(log) /\ Cardinality(LinkAttempts) = 2
    /\ loc.appIsLinkedToLib => LinkAttempts = {}

C10_Witness ==
  /\ ~doUnlink
  /\ Cardinality(LinkAttempts) = 2
  /\ Cardinality(Unlinks) = 1
  /\ \E i \in LinkAttempts : log[i].ok
  /\ \E u \in Unlinks : ~log[u].ok

====
